---- MODULE Spec2Model ----
(***************************************************************************)
(* A model of the nagiosplugin crate (src/src/lib.rs): the ServiceState    *)
(* severity model, the Metric -> CheckResult conversion, PerfString::new   *)
(* and the Resource aggregation (nagios_result / print_and_exit).          *)
(*                                                                         *)
(* Rust Strings are sequences of one-character strings.  Option<T> is a    *)
(* sequence of length at most one: None is << >>, Some(x) is << x >>.      *)
(* The metric value type T is instantiated at a signed integer type.       *)
(***************************************************************************)
EXTENDS Integers, Sequences, FiniteSets, TLC

VARIABLES
    pc,           \* Resource life cycle: "accumulating", "finalized", "exited", "panicked", "idle"
    name,         \* Resource.name
    results,      \* Resource.results
    fixed_state,  \* Resource.fixed_state
    description,  \* Resource.description
    ret,          \* Option of the (state, text) pair returned by nagios_result
    stdout,       \* what println! wrote
    exit_code,    \* Option of the code passed to std::process::exit
    metric,       \* Option of the Metric<T> being built
    conv,         \* outcome of the last Metric -> CheckResult conversion
    perf_args,    \* Option of the arguments of the last PerfString::new call
    perf_string,  \* Option of the PerfString that call returned
    ord_args,     \* the ServiceStates a, b, c handed to the comparisons
    ord_out,      \* Option of what the comparisons returned
    unit_arg,     \* the symbol handed to UnitString::new / new_unchecked
    unit_out,     \* Option of what the constructor returned
    run_pc,       \* position of the run wrapper: "idle", "start", "runner", "ran", "returned", "exited"
    check_fn,     \* what the check function f returns when called
    on_error,     \* Runner.on_error
    run_result,   \* Option of the RunnerResult / RunResult of safe_run
    handler_calls, \* number of calls of the on_error handler
    error_state   \* Option of the error_state argument of safe_run / safe_run_with_state_sync

vars == <<pc, name, results, fixed_state, description, ret, stdout, exit_code,
          metric, conv, perf_args, perf_string, ord_args, ord_out, unit_arg, unit_out,
          run_pc, check_fn, on_error, run_result, handler_calls, error_state>>

resourceVars == <<pc, name, results, fixed_state, description, ret, stdout, exit_code>>
metricVars == <<metric, conv>>
perfVars == <<perf_args, perf_string>>
ordVars == <<ord_args, ord_out>>
unitVars == <<unit_arg, unit_out>>
runVars == <<run_pc, check_fn, on_error, run_result, handler_calls, error_state>>
auxVars == <<ordVars, unitVars, runVars>>

----------------------------------------------------------------------------
(* Bounds of the model *)

MaxValue == 3
MaxNameLen == 2
MaxResults == 2
MaxSymbolLen == 2

----------------------------------------------------------------------------
(* Option and String helpers *)

None == << >>
Some(x) == << x >>
IsSome(o) == Len(o) = 1
Unwrap(o) == o[1]

Whitespace == {" ", "\n", "\t"}

RECURSIVE TrimStart(_)
TrimStart(s) ==
    IF s # << >> /\ Head(s) \in Whitespace THEN TrimStart(Tail(s)) ELSE s

RECURSIVE TrimEnd(_)
TrimEnd(s) ==
    IF s # << >> /\ s[Len(s)] \in Whitespace
    THEN TrimEnd(SubSeq(s, 1, Len(s) - 1))
    ELSE s

\* str::trim
Trim(s) == TrimEnd(TrimStart(s))

DigitChars == <<"0", "1", "2", "3", "4", "5", "6", "7", "8", "9">>

RECURSIVE NatToString(_)
NatToString(n) ==
    IF n < 10
    THEN <<DigitChars[n + 1]>>
    ELSE NatToString(n \div 10) \o <<DigitChars[(n % 10) + 1]>>

\* ToPerfString for the integer types: self.to_string()
to_perf_string(v) ==
    IF v < 0 THEN <<"-">> \o NatToString(0 - v) ELSE NatToString(v)

----------------------------------------------------------------------------
(* ServiceState *)

ServiceState == {"Ok", "Warning", "Critical", "Unknown"}

exit_code_by_order_number(s) ==
    CASE s = "Ok" -> 0
      [] s = "Unknown" -> 1
      [] s = "Warning" -> 2
      [] s = "Critical" -> 3

\* ServiceState::exit_code
exit_code_of(s) ==
    CASE s = "Ok" -> 0
      [] s = "Warning" -> 1
      [] s = "Critical" -> 2
      [] s = "Unknown" -> 3

order_number_by_exit_code(s) ==
    CASE s = "Ok" -> 0
      [] s = "Warning" -> 1
      [] s = "Critical" -> 2
      [] s = "Unknown" -> 3

\* ServiceState::order_number

order_number(s) ==
    CASE s = "Ok" -> 0
      [] s = "Unknown" -> 1
      [] s = "Warning" -> 2
      [] s = "Critical" -> 3

\* Ord for ServiceState: a < b
StateLess(a, b) == order_number(a) < order_number(b)

\* Display for ServiceState
Display(s) ==
    CASE s = "Ok" -> <<"O", "K">>
      [] s = "Warning" -> <<"W", "A", "R", "N", "I", "N", "G">>
      [] s = "Critical" -> <<"C", "R", "I", "T", "I", "C", "A", "L">>
      [] s = "Unknown" -> <<"U", "N", "K", "N", "O", "W", "N">>

\* Ord::cmp for ServiceState: the order numbers compared
state_cmp(a, b) ==
    IF order_number(a) < order_number(b) THEN "Less"
    ELSE IF order_number(a) > order_number(b) THEN "Greater"
    ELSE "Equal"

\* Ord::max as provided for the Ord implementation: other unless self is greater
state_max(a, b) == IF state_cmp(a, b) = "Greater" THEN a ELSE b

----------------------------------------------------------------------------
(* Unit *)

PredefinedUnits ==
    {"None", "Seconds", "Milliseconds", "Microseconds", "Percentage", "Bytes",
     "Kilobytes", "Megabytes", "Gigabytes", "Terabytes", "Counter"}

UnitOf(kind) == [kind |-> kind, sym |-> << >>]
UnitOther(sym) == [kind |-> "Other", sym |-> sym]

\* Unit::as_str
as_str(u) ==
    CASE u.kind = "None" -> << >>
      [] u.kind = "Seconds" -> <<"s">>
      [] u.kind = "Milliseconds" -> <<"m", "s">>
      [] u.kind = "Microseconds" -> <<"u", "s">>
      [] u.kind = "Percentage" -> <<"%">>
      [] u.kind = "Bytes" -> <<"B">>
      [] u.kind = "Kilobytes" -> <<"K", "B">>
      [] u.kind = "Megabytes" -> <<"M", "B">>
      [] u.kind = "Gigabytes" -> <<"G", "B">>
      [] u.kind = "Terabytes" -> <<"T", "B">>
      [] u.kind = "Counter" -> <<"c">>
      [] u.kind = "Other" -> u.sym

\* the characters ('0'..='9').chain(['"', ';'])
ForbiddenChars == {"0", "1", "2", "3", "4", "5", "6", "7", "8", "9", "\"", ";"}

\* str::contains(char)
Contains(s, c) == \E i \in 1..Len(s) : s[i] = c

\* UnitString::new_unchecked
UnitStringNewUnchecked(s) == [ok |-> TRUE, value |-> s, err |-> "none"]

UnitStringNewDigitsOnly(s) ==
    IF \E c \in ForbiddenChars \ {"\"", ";"} : Contains(s, c)
    THEN [ok |-> FALSE, value |-> << >>, err |-> "InvalidCharacters"]
    ELSE UnitStringNewUnchecked(s)

\* UnitString::new
UnitStringNew(s) ==
    IF \E c \in ForbiddenChars : Contains(s, c)
    THEN [ok |-> FALSE, value |-> << >>, err |-> "InvalidCharacters"]
    ELSE UnitStringNewUnchecked(s)

----------------------------------------------------------------------------
(* PerfString::new *)

\* Option<&T>::map_or_else(|| "".to_owned(), |v| v.to_perf_string())
OptPerf(o) == IF IsSome(o) THEN to_perf_string(Unwrap(o)) ELSE << >>

PerfStringNewDropTrailing(n, value, unit, warning, critical, minimum, maximum) ==
    LET fields == <<OptPerf(warning), OptPerf(critical), OptPerf(minimum), OptPerf(maximum)>>
        last == IF \E i \in 1..4 : fields[i] # << >>
                THEN CHOOSE i \in 1..4 : fields[i] # << >> /\ \A j \in (i + 1)..4 : fields[j] = << >>
                ELSE 0
        RECURSIVE Join(_)
        Join(i) == IF i > last THEN << >> ELSE <<";">> \o fields[i] \o Join(i + 1)
    IN  <<"'">> \o n \o <<"'", "=">> \o to_perf_string(value) \o as_str(unit) \o Join(1)

PerfStringNew(n, value, unit, warning, critical, minimum, maximum) ==
    <<"'">> \o n \o <<"'", "=">> \o to_perf_string(value) \o as_str(unit)
        \o <<";">> \o OptPerf(warning)
        \o <<";">> \o OptPerf(critical)
        \o <<";">> \o OptPerf(minimum)
        \o <<";">> \o OptPerf(maximum)

----------------------------------------------------------------------------
(* Metric<T> and From<Metric<T>> for CheckResult *)

TriggerIfValue == {"Greater", "Less"}

\* From<&TriggerIfValue> for Ordering
OrderingOf(trigger) ==
    CASE trigger = "Greater" -> "Greater"
      [] trigger = "Less" -> "Less"

\* PartialOrd::partial_cmp on the integer value type
partial_cmp(a, b) ==
    IF a < b THEN Some("Less") ELSE IF a > b THEN Some("Greater") ELSE Some("Equal")

\* Option::and_then(|w| metric.value.partial_cmp(w))
BoundCmp(value, bound) ==
    IF IsSome(bound) THEN partial_cmp(value, Unwrap(bound)) ELSE None

BreachedStrict(cmp, ord) == cmp = ord

\* the closure of the second filter_map: cmp == ord || cmp == Ordering::Equal
Breached(cmp, ord) == cmp = ord \/ cmp = "Equal"

CandidatesWarningFirst(warning_cmp, critical_cmp) ==
    <<[cmp |-> warning_cmp, state |-> "Warning"],
      [cmp |-> critical_cmp, state |-> "Critical"]>>

\* the array [(critical_cmp, Critical), (warning_cmp, Warning)]
Candidates(warning_cmp, critical_cmp) ==
    <<[cmp |-> critical_cmp, state |-> "Critical"],
      [cmp |-> warning_cmp, state |-> "Warning"]>>

NextOrOk(states) == IF states = << >> THEN Some("Ok") ELSE Some(Head(states))

\* Iterator::next on the filtered candidates
NextState(states) == IF states = << >> THEN None ELSE Some(Head(states))

\* the two filter_map stages: keep the candidates whose comparison exists
\* and is a breach, in array order
RECURSIVE FilterBreached(_, _)
FilterBreached(cands, ord) ==
    IF cands = << >>
    THEN << >>
    ELSE LET c == Head(cands)
             rest == FilterBreached(Tail(cands), ord)
         IN  IF IsSome(c.cmp) /\ Breached(Unwrap(c.cmp), ord)
             THEN <<c.state>> \o rest
             ELSE rest

\* let state = ... (the first statement of the conversion)
MetricState(m) ==
    IF IsSome(m.fixed_state)
    THEN m.fixed_state
    ELSE IF IsSome(m.thresholds)
         THEN LET t == Unwrap(m.thresholds)
                  ord == OrderingOf(t.trigger)
                  warning_cmp == BoundCmp(m.value, t.warning)
                  critical_cmp == BoundCmp(m.value, t.critical)
              IN  NextState(FilterBreached(Candidates(warning_cmp, critical_cmp), ord))
         ELSE None

\* let message = ...: TRUE when an unwrap() of None or unreachable!() is hit
MessagePanics(m, state) ==
    /\ IsSome(state)
    /\ Unwrap(state) # "Ok"
    /\ \/ ~IsSome(m.thresholds)
       \/ /\ IsSome(m.thresholds)
          /\ \/ Unwrap(state) = "Warning" /\ ~IsSome(Unwrap(m.thresholds).warning)
             \/ Unwrap(state) = "Critical" /\ ~IsSome(Unwrap(m.thresholds).critical)
             \/ Unwrap(state) \notin {"Warning", "Critical"}

\* the format! of the breach message
FormatMessage(n, state, value, threshold) ==
    <<"m", "e", "t", "r", "i", "c", " ", "'">> \o n
        \o <<"'", " ", "i", "s", " ">> \o Display(state)
        \o <<":", " ", "v", "a", "l", "u", "e", " ", "'">> \o to_perf_string(value)
        \o <<"'", " ", "h", "a", "s", " ", "e", "x", "c", "e", "e", "d", "e", "d", " ",
             "t", "h", "r", "e", "s", "h", "o", "l", "d", " ", "o", "f", " ", "'">>
        \o to_perf_string(threshold) \o <<"'">>

\* let message = ...: its value when no panic occurs
MetricMessage(m, state) ==
    IF IsSome(state) /\ Unwrap(state) # "Ok"
    THEN LET t == Unwrap(m.thresholds)
             threshold == IF Unwrap(state) = "Warning"
                          THEN Unwrap(t.warning)
                          ELSE Unwrap(t.critical)
         IN  Some(FormatMessage(m.name, Unwrap(state), m.value, threshold))
    ELSE None

\* let perf_string = ...
MetricPerfString(m) ==
    LET warning == IF IsSome(m.thresholds) THEN Unwrap(m.thresholds).warning ELSE None
        critical == IF IsSome(m.thresholds) THEN Unwrap(m.thresholds).critical ELSE None
    IN  PerfStringNew(m.name, m.value, m.unit, warning, critical, m.min, m.max)

\* From<Metric<T>> for CheckResult: None when the conversion panics
CheckResultFrom(m) ==
    LET state == MetricState(m)
    IN  IF MessagePanics(m, state)
        THEN None
        ELSE Some([state |-> state,
                   message |-> MetricMessage(m, state),
                   perf_string |-> Some(MetricPerfString(m))])

----------------------------------------------------------------------------
(* The Metric builder and its conversion as a state machine *)

\* the values of the documented checks: Metric::new("test", 15) with
\* thresholds 20 and 50, and the boundary value 30 of the tests
ExampleValues == {15, 20, 30, 50}

Values == ((0 - 1)..MaxValue) \cup ExampleValues
OptValues == {None} \cup {Some(v) : v \in Values}
OptStates == {None} \cup {Some(s) : s \in ServiceState}

MetricNames == {<<"t", "e", "s", "t">>}
MetricUnits == {UnitOf("None"), UnitOf("Megabytes")}

NoConv == [outcome |-> "none", input |-> None, result |-> None]

\* Metric::new
MetricNew(n, value) ==
    /\ metric' = Some([name |-> n, value |-> value, unit |-> UnitOf("None"),
                       thresholds |-> None, min |-> None, max |-> None,
                       fixed_state |-> None])
    /\ conv' = NoConv
    /\ UNCHANGED <<resourceVars, perfVars, auxVars>>

\* Metric::with_thresholds
MetricWithThresholds(warning, critical, trigger_if_value) ==
    /\ IsSome(metric)
    /\ metric' = Some([Unwrap(metric) EXCEPT !.thresholds =
                          Some([warning |-> warning, critical |-> critical,
                                trigger |-> trigger_if_value])])
    /\ UNCHANGED <<conv, resourceVars, perfVars, auxVars>>

\* Metric::with_minimum
MetricWithMinimum(minimum) ==
    /\ IsSome(metric)
    /\ metric' = Some([Unwrap(metric) EXCEPT !.min = Some(minimum)])
    /\ UNCHANGED <<conv, resourceVars, perfVars, auxVars>>

\* Metric::with_maximum
MetricWithMaximum(maximum) ==
    /\ IsSome(metric)
    /\ metric' = Some([Unwrap(metric) EXCEPT !.max = Some(maximum)])
    /\ UNCHANGED <<conv, resourceVars, perfVars, auxVars>>

\* Metric::with_fixed_state
MetricWithFixedState(state) ==
    /\ IsSome(metric)
    /\ metric' = Some([Unwrap(metric) EXCEPT !.fixed_state = Some(state)])
    /\ UNCHANGED <<conv, resourceVars, perfVars, auxVars>>

\* Metric::with_unit
MetricWithUnit(unit) ==
    /\ IsSome(metric)
    /\ metric' = Some([Unwrap(metric) EXCEPT !.unit = unit])
    /\ UNCHANGED <<conv, resourceVars, perfVars, auxVars>>

\* let result: CheckResult = metric.into(); the metric is moved into the call
MetricInto ==
    /\ IsSome(metric)
    /\ LET r == CheckResultFrom(Unwrap(metric))
       IN  conv' = [outcome |-> IF IsSome(r) THEN "returned" ELSE "panicked",
                    input |-> metric,
                    result |-> r]
    /\ metric' = None
    /\ UNCHANGED <<resourceVars, perfVars, auxVars>>

IdleResource ==
    /\ pc = "idle"
    /\ name = << >>
    /\ results = << >>
    /\ fixed_state = None
    /\ description = None
    /\ ret = None
    /\ stdout = << >>
    /\ exit_code = None

IdleMetric == metric = None /\ conv = NoConv

IdlePerf == perf_args = None /\ perf_string = None

IdleOrd == ord_args = << >> /\ ord_out = None

IdleUnit == unit_arg = << >> /\ unit_out = None

IdleRun ==
    /\ run_pc = "idle"
    /\ check_fn = None
    /\ on_error = None
    /\ run_result = None
    /\ handler_calls = 0
    /\ error_state = None

IdleAux == IdleOrd /\ IdleUnit /\ IdleRun

InitMetric == IdleResource /\ IdleMetric /\ IdlePerf /\ IdleAux

NextMetric ==
    \/ \E n \in MetricNames, v \in Values : MetricNew(n, v)
    \/ \E w \in OptValues, c \in OptValues, t \in TriggerIfValue : MetricWithThresholds(w, c, t)
    \/ MetricWithMinimum(0)
    \/ MetricWithMaximum(MaxValue)
    \/ \E s \in ServiceState : MetricWithFixedState(s)
    \/ \E u \in MetricUnits : MetricWithUnit(u)
    \/ MetricInto

SpecMetric == InitMetric /\ [][NextMetric]_vars

----------------------------------------------------------------------------
(* PerfString::new as a state machine: the arguments are drawn in the      *)
(* initial state and the call renders them                                 *)

NameChars == {"a", "=", "'", " "}

SeqsUpTo(S, n) == UNION {[1..k -> S] : k \in 0..n}

PerfNames ==
    SeqsUpTo(NameChars, MaxNameLen)
        \cup {<<"f", "o", "o">>, <<"t", "e", "s", "t", "=", "a">>, <<"t", "e", "'", "s", "t">>}

PerfValues == {0 - 1, 12}
PerfBounds == {None, Some(42), Some(60)}
PerfUnits == {UnitOf("None"), UnitOf("Percentage"), UnitOther(<<"k", "m">>)}

PerfArgs ==
    [name : PerfNames, value : PerfValues, unit : PerfUnits,
     warning : PerfBounds, critical : PerfBounds,
     minimum : PerfBounds, maximum : PerfBounds]

\* a call PerfString::new(name, &value, unit, warning, critical, minimum, maximum)
CallPerfStringNew ==
    /\ IsSome(perf_args)
    /\ perf_string = None
    /\ LET a == Unwrap(perf_args)
       IN  perf_string' = Some(PerfStringNew(a.name, a.value, a.unit, a.warning,
                                             a.critical, a.minimum, a.maximum))
    /\ UNCHANGED <<perf_args, resourceVars, metricVars, auxVars>>

InitPerf ==
    /\ IdleResource
    /\ IdleMetric
    /\ perf_args \in {Some(a) : a \in PerfArgs}
    /\ perf_string = None
    /\ IdleAux

NextPerf == CallPerfStringNew

SpecPerf == InitPerf /\ [][NextPerf]_vars

----------------------------------------------------------------------------
(* Resource *)

ApplyFixedIfWorse(final_state, fixed) ==
    IF IsSome(fixed) /\ StateLess(final_state, Unwrap(fixed)) THEN Unwrap(fixed) ELSE final_state

\* if let Some(state) = self.fixed_state { final_state = state; }
ApplyFixed(final_state, fixed) ==
    IF IsSome(fixed) THEN Unwrap(fixed) ELSE final_state

FoldStepState(acc, result) ==
    IF IsSome(result.state) /\ StateLess(acc.final_state, Unwrap(result.state))
    THEN Unwrap(result.state)
    ELSE acc.final_state

FoldStepMessages(acc, result) ==
    IF IsSome(result.message)
    THEN acc.messages \o Trim(Unwrap(result.message)) \o <<"\n">>
    ELSE acc.messages

FoldStepPerf(acc, result) ==
    IF IsSome(result.perf_string)
    THEN acc.perf_string \o <<" ">> \o Trim(Unwrap(result.perf_string))
    ELSE acc.perf_string

\* the loop body with the space pushed between fragments only
FoldStepSpaceBetween(acc, result) ==
    [final_state |-> FoldStepState(acc, result),
     messages |-> FoldStepMessages(acc, result),
     perf_string |->
        IF IsSome(result.perf_string)
        THEN (IF acc.perf_string = << >> THEN << >> ELSE acc.perf_string \o <<" ">>)
                 \o Trim(Unwrap(result.perf_string))
        ELSE acc.perf_string]

\* the loop body with each message and fragment put in front of the buffer
FoldStepPrepend(acc, result) ==
    [final_state |-> FoldStepState(acc, result),
     messages |->
        IF IsSome(result.message)
        THEN Trim(Unwrap(result.message)) \o <<"\n">> \o acc.messages
        ELSE acc.messages,
     perf_string |->
        IF IsSome(result.perf_string)
        THEN <<" ">> \o Trim(Unwrap(result.perf_string)) \o acc.perf_string
        ELSE acc.perf_string]

\* the loop body with result.state.unwrap_or_default() in place of if let Some
FoldStepDefaultState(acc, result) ==
    [final_state |->
        LET st == IF IsSome(result.state) THEN Unwrap(result.state) ELSE "Unknown"
        IN  IF StateLess(acc.final_state, st) THEN st ELSE acc.final_state,
     messages |-> FoldStepMessages(acc, result),
     perf_string |-> FoldStepPerf(acc, result)]

\* one iteration of `for result in self.results`
FoldStep(acc, result) ==
    [final_state |->
        IF IsSome(result.state) /\ StateLess(acc.final_state, Unwrap(result.state))
        THEN Unwrap(result.state)
        ELSE acc.final_state,
     messages |->
        IF IsSome(result.message)
        THEN acc.messages \o Trim(Unwrap(result.message)) \o <<"\n">>
        ELSE acc.messages,
     perf_string |->
        IF IsSome(result.perf_string)
        THEN acc.perf_string \o <<" ">> \o Trim(Unwrap(result.perf_string))
        ELSE acc.perf_string]

\* the loop over self.results, from final_state = Ok and two empty Strings
RECURSIVE Fold(_, _)
Fold(acc, rs) ==
    IF rs = << >> THEN acc ELSE Fold(FoldStep(acc, Head(rs)), Tail(rs))

PadIfText(messages) == IF Trim(messages) = << >> THEN << >> ELSE <<"\n", "\n">>

\* let pad = if messages.is_empty() { "" } else { "\n\n" }
Pad(messages) == IF messages = << >> THEN << >> ELSE <<"\n", "\n">>

\* Resource::nagios_result
NagiosResult(n, rs, fixed, desc) ==
    LET folded == Fold([final_state |-> "Ok", messages |-> << >>, perf_string |-> << >>], rs)
        state == ApplyFixed(folded.final_state, fixed)
        head == n \o <<" ", "i", "s", " ">> \o Display(state)
                    \o (IF IsSome(desc) THEN <<":", " ">> \o Trim(Unwrap(desc)) ELSE << >>)
        pad == Pad(folded.messages)
    IN  [state |-> state,
         text |-> head \o pad \o Trim(folded.messages) \o <<"|">> \o folded.perf_string]

ResourceNames == {<<"f", "o", "o">>}
Descriptions == {<<"i", " ", "a", "m", " ", "b", "a", "r">>}
Messages == {<<"a">>, <<" ", "b", "\n">>, << >>}
Fragments == {PerfStringNew(<<"x">>, 1, UnitOf("None"), None, None, None, None)}

\* CheckResult::new() followed by any of with_state / with_message / with_perf_data
CheckResults ==
    [state : OptStates,
     message : {None} \cup {Some(m) : m \in Messages},
     perf_string : {None} \cup {Some(f) : f \in Fragments}]

MetricOf(n, value, thresholds, fixed) ==
    [name |-> n, value |-> value, unit |-> UnitOf("None"), thresholds |-> thresholds,
     min |-> None, max |-> None, fixed_state |-> fixed]

\* metrics handed to with_result / push_result, converted by result.into()
SampleMetrics ==
    {MetricOf(<<"t">>, 0, Some([warning |-> Some(1), critical |-> Some(2), trigger |-> "Greater"]), None),
     MetricOf(<<"t">>, 1, Some([warning |-> Some(1), critical |-> Some(2), trigger |-> "Greater"]), None),
     MetricOf(<<"t">>, 1, None, Some("Unknown"))}

\* Resource::with_fixed_state
ResourceWithFixedState(state) ==
    /\ pc = "accumulating"
    /\ fixed_state' = Some(state)
    /\ UNCHANGED <<pc, name, results, description, ret, stdout, exit_code, metricVars, perfVars, auxVars>>

\* Resource::set_description / with_description
ResourceSetDescription(d) ==
    /\ pc = "accumulating"
    /\ description' = Some(d)
    /\ UNCHANGED <<pc, name, results, fixed_state, ret, stdout, exit_code, metricVars, perfVars, auxVars>>

\* Resource::push_result / with_result with a CheckResult
ResourcePushResult(result) ==
    /\ pc = "accumulating"
    /\ Len(results) < MaxResults
    /\ results' = Append(results, result)
    /\ UNCHANGED <<pc, name, fixed_state, description, ret, stdout, exit_code, metricVars, perfVars, auxVars>>

\* Resource::push_result / with_result with a Metric: result.into() runs first
ResourcePushMetric(m) ==
    /\ pc = "accumulating"
    /\ Len(results) < MaxResults
    /\ LET r == CheckResultFrom(m)
       IN  IF IsSome(r)
           THEN results' = Append(results, Unwrap(r)) /\ pc' = pc
           ELSE results' = results /\ pc' = "panicked"
    /\ UNCHANGED <<name, fixed_state, description, ret, stdout, exit_code, metricVars, perfVars, auxVars>>

\* Resource::nagios_result consumes the Resource
ResourceNagiosResult ==
    /\ pc = "accumulating"
    /\ ret' = Some(NagiosResult(name, results, fixed_state, description))
    /\ pc' = "finalized"
    /\ UNCHANGED <<name, results, fixed_state, description, stdout, exit_code, metricVars, perfVars, auxVars>>

\* Resource::print_and_exit
ResourcePrintAndExit ==
    /\ pc = "accumulating"
    /\ LET r == NagiosResult(name, results, fixed_state, description)
       IN  /\ ret' = Some(r)
           /\ stdout' = r.text \o <<"\n">>
           /\ exit_code' = Some(exit_code_of(r.state))
    /\ pc' = "exited"
    /\ UNCHANGED <<name, results, fixed_state, description, metricVars, perfVars, auxVars>>

\* Resource::new
Init ==
    /\ pc = "accumulating"
    /\ name \in ResourceNames
    /\ results = << >>
    /\ fixed_state = None
    /\ description = None
    /\ ret = None
    /\ stdout = << >>
    /\ exit_code = None
    /\ IdleMetric
    /\ IdlePerf
    /\ IdleAux

Next ==
    \/ \E s \in ServiceState : ResourceWithFixedState(s)
    \/ \E d \in Descriptions : ResourceSetDescription(d)
    \/ \E r \in CheckResults : ResourcePushResult(r)
    \/ \E m \in SampleMetrics : ResourcePushMetric(m)
    \/ ResourceNagiosResult
    \/ ResourcePrintAndExit

Spec == Init /\ [][Next]_vars

----------------------------------------------------------------------------
(* Properties of the Resource aggregation, checked under Spec *)

Finalized == pc \in {"finalized", "exited"}

\* the severity rank Ok < Unknown < Warning < Critical
SeverityRank(s) ==
    CASE s = "Ok" -> 0
      [] s = "Unknown" -> 1
      [] s = "Warning" -> 2
      [] s = "Critical" -> 3

PresentStates(rs) ==
    {Unwrap(rs[i].state) : i \in {j \in 1..Len(rs) : IsSome(rs[j].state)}}

\* C1: without a fixed-state override nagios_result returns Ok when no result
\* carries a status and otherwise the present status of highest rank under
\* Ok < Unknown < Warning < Critical; the status of every prefix of the result
\* list is of no higher rank than the status of the whole list, so appending
\* a result never lowers it.
C1_WorstOfPresent ==
    (Finalized /\ fixed_state = None) =>
        LET st == Unwrap(ret).state
            present == PresentStates(results)
        IN  /\ present = {} => st = "Ok"
            /\ present # {} =>
                  /\ st \in present
                  /\ \A t \in present : SeverityRank(t) <= SeverityRank(st)
            /\ \A k \in 0..Len(results) :
                  SeverityRank(NagiosResult(name, SubSeq(results, 1, k), None, description).state)
                      <= SeverityRank(st)

C1_Witness ==
    /\ pc = "finalized"
    /\ fixed_state = None
    /\ Len(results) = 2
    /\ results[1].state = Some("Critical")
    /\ results[2].state = Some("Unknown")
    /\ Unwrap(ret).state = "Critical"

\* C2: with a fixed-state override nagios_result returns exactly the override,
\* whatever the contained results are.
C2_FixedStateWins ==
    (Finalized /\ IsSome(fixed_state)) => Unwrap(ret).state = Unwrap(fixed_state)

C2_Witness ==
    /\ pc = "finalized"
    /\ fixed_state = Some("Ok")
    /\ \E i \in 1..Len(results) : results[i].state = Some("Critical")
    /\ Unwrap(ret).state = "Ok"

ExitCodeTable(s) ==
    CASE s = "Ok" -> 0
      [] s = "Warning" -> 1
      [] s = "Critical" -> 2
      [] s = "Unknown" -> 3

\* C10: the process exits with the table entry Ok 0, Warning 1, Critical 2,
\* Unknown 3 of the overall status; results carrying exactly Unknown and
\* Warning, without an override, exit with 1.
C10_ExitCodeOfOverall ==
    pc = "exited" =>
        /\ exit_code = Some(ExitCodeTable(Unwrap(ret).state))
        /\ (fixed_state = None /\ PresentStates(results) = {"Unknown", "Warning"})
              => exit_code = Some(1)

C10_Witness ==
    /\ pc = "exited"
    /\ fixed_state = None
    /\ PresentStates(results) = {"Unknown", "Warning"}
    /\ exit_code = Some(1)

----------------------------------------------------------------------------
(* Properties of the Metric conversion, checked under SpecMetric *)

Converted == conv.outcome # "none"
Input == Unwrap(conv.input)
Returned == conv.outcome = "returned"
Output == Unwrap(conv.result)

\* value is on the trigger side of the bound, or equal to it
InclusiveBreach(value, bound, trigger) ==
    \/ trigger = "Greater" /\ value >= bound
    \/ trigger = "Less" /\ value <= bound

BoundBreached(m, bound) ==
    /\ IsSome(bound)
    /\ InclusiveBreach(m.value, Unwrap(bound), Unwrap(m.thresholds).trigger)

\* C3: without a fixed state a status is produced exactly when some present
\* bound is breached, where a breach is the value lying on the trigger side of
\* the bound or being equal to it; a value equal to the critical bound gives
\* Critical, a value equal to the warning bound gives at least Warning.
C3_InclusiveBoundary ==
    (Converted /\ Input.fixed_state = None /\ IsSome(Input.thresholds)) =>
        LET m == Input
            t == Unwrap(m.thresholds)
        IN  /\ Returned
            /\ IsSome(Output.state) <=> (BoundBreached(m, t.warning) \/ BoundBreached(m, t.critical))
            /\ t.critical = Some(m.value) => Output.state = Some("Critical")
            /\ t.warning = Some(m.value) => Output.state \in {Some("Warning"), Some("Critical")}
            /\ (t.warning = Some(m.value) /\ ~BoundBreached(m, t.critical))
                  => Output.state = Some("Warning")

C3_Witness ==
    /\ Returned
    /\ Input.fixed_state = None
    /\ Input.thresholds = Some([warning |-> Some(30), critical |-> Some(15), trigger |-> "Less"])
    /\ Input.value = 30
    /\ Output.state = Some("Warning")

\* C4: without a fixed state the status is Critical whenever the critical
\* bound is present and breached, for every ordering of the two bounds, and it
\* is Warning exactly when the warning bound is present and breached and the
\* critical bound is absent or not breached.
C4_CriticalFirst ==
    (Converted /\ Input.fixed_state = None /\ IsSome(Input.thresholds)) =>
        LET m == Input
            t == Unwrap(m.thresholds)
        IN  /\ Returned
            /\ BoundBreached(m, t.critical) => Output.state = Some("Critical")
            /\ Output.state = Some("Warning")
                  <=> (BoundBreached(m, t.warning) /\ ~BoundBreached(m, t.critical))

C4_Witness ==
    /\ Returned
    /\ Input.fixed_state = None
    /\ IsSome(Input.thresholds)
    /\ LET t == Unwrap(Input.thresholds)
       IN  /\ t.trigger = "Greater"
           /\ IsSome(t.warning) /\ IsSome(t.critical)
           /\ Unwrap(t.warning) > Unwrap(t.critical)
           /\ Input.value >= Unwrap(t.warning)
    /\ Output.state = Some("Critical")

\* C5: without a fixed state the conversion yields no status (None, not Ok)
\* and no message when no thresholds are configured or when no present bound
\* is breached; an absent bound never produces its status.
C5_AbsentWhenUnbreached ==
    (Converted /\ Input.fixed_state = None) =>
        LET m == Input
        IN  /\ Returned
            /\ Output.state # Some("Ok")
            /\ m.thresholds = None => (Output.state = None /\ Output.message = None)
            /\ IsSome(m.thresholds) =>
                  LET t == Unwrap(m.thresholds)
                  IN  /\ (~BoundBreached(m, t.warning) /\ ~BoundBreached(m, t.critical))
                            => (Output.state = None /\ Output.message = None)
                      /\ t.warning = None => Output.state # Some("Warning")
                      /\ t.critical = None => Output.state # Some("Critical")

C5_Witness ==
    /\ Returned
    /\ Input.fixed_state = None
    /\ IsSome(Input.thresholds)
    /\ LET t == Unwrap(Input.thresholds)
       IN  /\ t.trigger = "Greater"
           /\ IsSome(t.warning)
           /\ t.critical = None
           /\ Input.value < Unwrap(t.warning)
    /\ Output.state = None
    /\ Output.message = None

\* C6: a Metric with a fixed state converts to a CheckResult carrying exactly
\* that state, for every value, threshold configuration and direction.
C6_FixedStateReturned ==
    (Converted /\ IsSome(Input.fixed_state)) =>
        (Returned /\ Output.state = Input.fixed_state)

\* C7: the conversion produces a message exactly when the status it decided
\* is present and not Ok; the message is "metric '<name>' is <STATUS>: value
\* '<value>' has exceeded threshold of '<bound>'" with the warning bound for
\* Warning and the critical bound for Critical.
C7_MessageIffNotOk ==
    Converted =>
        LET m == Input
            decided == MetricState(m)
        IN  /\ Returned
            /\ Output.state = decided
            /\ IsSome(Output.message) <=> (IsSome(decided) /\ decided # Some("Ok"))
            /\ decided = Some("Warning") =>
                  Output.message = Some(FormatMessage(m.name, "Warning", m.value,
                                                      Unwrap(Unwrap(m.thresholds).warning)))
            /\ decided = Some("Critical") =>
                  Output.message = Some(FormatMessage(m.name, "Critical", m.value,
                                                      Unwrap(Unwrap(m.thresholds).critical)))

----------------------------------------------------------------------------
(* Properties of PerfString::new, checked under SpecPerf *)

Rendered == Unwrap(perf_string)
Args == Unwrap(perf_args)

IsPrefix(p, s) == Len(p) <= Len(s) /\ SubSeq(s, 1, Len(p)) = p

\* the escaping of a metric name: '=' becomes '_', every single quote is
\* doubled, and a name containing a space is wrapped in single quotes
RECURSIVE EscapeChars(_)
EscapeChars(n) ==
    IF n = << >>
    THEN << >>
    ELSE (CASE Head(n) = "=" -> <<"_">>
            [] Head(n) = "'" -> <<"'", "'">>
            [] OTHER -> <<Head(n)>>) \o EscapeChars(Tail(n))

EscapedName(n) ==
    IF \E i \in 1..Len(n) : n[i] = " "
    THEN <<"'">> \o EscapeChars(n) \o <<"'">>
    ELSE EscapeChars(n)

\* C8: PerfString::new renders the escaped name in front of the '=' that
\* starts the value: no '=' of the name survives and every single quote of
\* the name is doubled (the escaped name may stand bare when it holds no
\* space, or wrapped in single quotes).
C8_NameEscaped ==
    IsSome(perf_string) =>
        \/ IsPrefix(EscapedName(Args.name) \o <<"=">>, Rendered)
        \/ IsPrefix(<<"'">> \o EscapeChars(Args.name) \o <<"'", "=">>, Rendered)

\* the fields of s between occurrences of the separator ch
RECURSIVE SplitOn(_, _)
SplitOn(s, ch) ==
    IF \E i \in 1..Len(s) : s[i] = ch
    THEN LET i == CHOOSE k \in 1..Len(s) : s[k] = ch /\ \A j \in 1..(k - 1) : s[j] # ch
         IN  <<SubSeq(s, 1, i - 1)>> \o SplitOn(SubSeq(s, i + 1, Len(s)), ch)
    ELSE <<s>>

\* the decimal text of a present field, the empty string for an absent one
FieldText(o) == IF o = None THEN << >> ELSE to_perf_string(o[1])

\* C9: PerfString::new renders '<name>'=<value><unit> followed by exactly four
\* semicolons that delimit warning, critical, minimum and maximum in this
\* order, an absent field being empty in its own position.
C9_PositionalLayout ==
    IsSome(perf_string) =>
        LET a == Args
            front == <<"'">> \o a.name \o <<"'", "=">> \o to_perf_string(a.value) \o as_str(a.unit)
            rest == SubSeq(Rendered, Len(front) + 1, Len(Rendered))
        IN  /\ IsPrefix(front, Rendered)
            /\ Cardinality({i \in 1..Len(rest) : rest[i] = ";"}) = 4
            /\ SplitOn(rest, ";") = << << >>, FieldText(a.warning), FieldText(a.critical),
                                       FieldText(a.minimum), FieldText(a.maximum) >>

C9_Witness ==
    /\ IsSome(perf_string)
    /\ Args = [name |-> <<"f", "o", "o">>, value |-> 12, unit |-> UnitOf("None"),
               warning |-> Some(42), critical |-> None, minimum |-> None,
               maximum |-> Some(60)]
    /\ Rendered = <<"'", "f", "o", "o", "'", "=", "1", "2", ";", "4", "2", ";", ";", ";", "6", "0">>

----------------------------------------------------------------------------
(* The ordering of ServiceState as a state machine: three states are drawn *)
(* in the initial state and the comparisons are applied to them            *)

\* a < b, a.cmp(&b), a.max(b) and the nested uses of max on a, b, c
CallCompare ==
    /\ ord_out = None
    /\ LET a == ord_args[1]
           b == ord_args[2]
           c == ord_args[3]
       IN  ord_out' = Some([lt_ab |-> StateLess(a, b),
                            lt_ba |-> StateLess(b, a),
                            lt_bc |-> StateLess(b, c),
                            lt_ac |-> StateLess(a, c),
                            cmp_ab |-> state_cmp(a, b),
                            max_ab |-> state_max(a, b),
                            max_ba |-> state_max(b, a),
                            max_aa |-> state_max(a, a),
                            max_ab_c |-> state_max(state_max(a, b), c),
                            max_a_bc |-> state_max(a, state_max(b, c))])
    /\ UNCHANGED <<ord_args, resourceVars, metricVars, perfVars, unitVars, runVars>>

InitOrd ==
    /\ IdleResource
    /\ IdleMetric
    /\ IdlePerf
    /\ IdleUnit
    /\ IdleRun
    /\ ord_args \in ServiceState \X ServiceState \X ServiceState
    /\ ord_out = None

NextOrd == CallCompare

SpecOrd == InitOrd /\ [][NextOrd]_vars

\* C11: the ordering of ServiceState is the total order Ok < Unknown <
\* Warning < Critical, and max under it returns the state of higher rank and
\* is commutative, associative and idempotent.
C11_MaxIsJoin ==
    IsSome(ord_out) =>
        LET a == ord_args[1]
            b == ord_args[2]
            c == ord_args[3]
            o == Unwrap(ord_out)
        IN  /\ o.lt_ab <=> SeverityRank(a) < SeverityRank(b)
            /\ o.cmp_ab = "Equal" <=> a = b
            /\ (o.lt_ab /\ ~o.lt_ba) \/ (o.lt_ba /\ ~o.lt_ab) \/ (a = b /\ ~o.lt_ab /\ ~o.lt_ba)
            /\ (o.lt_ab /\ o.lt_bc) => o.lt_ac
            /\ o.max_ab \in {a, b}
            /\ SeverityRank(o.max_ab) >= SeverityRank(a)
            /\ SeverityRank(o.max_ab) >= SeverityRank(b)
            /\ o.max_ab = o.max_ba
            /\ o.max_ab_c = o.max_a_bc
            /\ o.max_aa = a

C11_Witness ==
    /\ IsSome(ord_out)
    /\ ord_args = <<"Unknown", "Warning", "Critical">>
    /\ Unwrap(ord_out).max_ab = "Warning"
    /\ Unwrap(ord_out).max_ba = "Warning"
    /\ Unwrap(ord_out).max_ab_c = "Critical"

----------------------------------------------------------------------------
(* UnitString as a state machine: the symbol is drawn in the initial       *)
(* state, one of the constructors is applied, and a UnitString that was    *)
(* returned is rendered as the Unit::Other of a performance fragment       *)

UnitChars == ForbiddenChars \cup {"k", "m", "%"}

Symbols == SeqsUpTo(UnitChars, MaxSymbolLen)

\* UnitString::new(s)
CallUnitStringNew ==
    /\ unit_out = None
    /\ unit_out' = Some([via |-> "new", res |-> UnitStringNew(unit_arg)])
    /\ UNCHANGED <<unit_arg, resourceVars, metricVars, perfVars, ordVars, runVars>>

\* UnitString::new_unchecked(s)
CallUnitStringNewUnchecked ==
    /\ unit_out = None
    /\ unit_out' = Some([via |-> "new_unchecked", res |-> UnitStringNewUnchecked(unit_arg)])
    /\ UNCHANGED <<unit_arg, resourceVars, metricVars, perfVars, ordVars, runVars>>

\* Metric::new("bar", 10).with_unit(Unit::Other(unit)) rendered by PerfString::new
RenderWithUnit ==
    /\ IsSome(unit_out)
    /\ Unwrap(unit_out).res.ok
    /\ perf_string = None
    /\ LET a == [name |-> <<"b", "a", "r">>, value |-> 10,
                 unit |-> UnitOther(Unwrap(unit_out).res.value),
                 warning |-> None, critical |-> None, minimum |-> None, maximum |-> None]
       IN  /\ perf_args' = Some(a)
           /\ perf_string' = Some(PerfStringNew(a.name, a.value, a.unit, a.warning,
                                                a.critical, a.minimum, a.maximum))
    /\ UNCHANGED <<unitVars, resourceVars, metricVars, ordVars, runVars>>

InitUnit ==
    /\ IdleResource
    /\ IdleMetric
    /\ IdlePerf
    /\ IdleOrd
    /\ IdleRun
    /\ unit_arg \in Symbols
    /\ unit_out = None

NextUnit ==
    \/ CallUnitStringNew
    \/ CallUnitStringNewUnchecked
    \/ RenderWithUnit

SpecUnit == InitUnit /\ [][NextUnit]_vars

\* a decimal digit, a double quote or a semicolon
IsForbiddenChar(c) ==
    c \in {"0", "1", "2", "3", "4", "5", "6", "7", "8", "9"} \/ c = "\"" \/ c = ";"

\* the text between '<name>'=<value> and the four trailing semicolons of a
\* fragment rendered without warning, critical, minimum and maximum
UnitPosition(n, value, fragment) ==
    SubSeq(fragment, Len(n) + 3 + Len(to_perf_string(value)) + 1, Len(fragment) - 4)

\* C12: UnitString::new fails with InvalidCharacters exactly when the symbol
\* holds a digit, a double quote or a semicolon and otherwise returns the
\* symbol unchanged; new_unchecked returns every symbol unchanged; the unit
\* position of a fragment rendered from a checked UnitString holds the symbol
\* and none of these characters.
C12_UnitStringValidated ==
    IsSome(unit_out) =>
        LET o == Unwrap(unit_out)
            bad == \E i \in 1..Len(unit_arg) : IsForbiddenChar(unit_arg[i])
        IN  /\ o.via = "new" =>
                  /\ o.res.ok <=> ~bad
                  /\ ~o.res.ok => o.res.err = "InvalidCharacters"
                  /\ o.res.ok => o.res.value = unit_arg
            /\ o.via = "new_unchecked" => (o.res.ok /\ o.res.value = unit_arg)
            /\ (o.via = "new" /\ IsSome(perf_string)) =>
                  LET u == UnitPosition(Args.name, Args.value, Rendered)
                  IN  /\ u = unit_arg
                      /\ \A i \in 1..Len(u) : ~IsForbiddenChar(u[i])

C12_Witness ==
    /\ IsSome(unit_out)
    /\ Unwrap(unit_out).via = "new"
    /\ unit_arg = <<"k", "m">>
    /\ IsSome(perf_string)
    /\ Rendered = <<"'", "b", "a", "r", "'", "=", "1", "0", "k", "m", ";", ";", ";", ";">>

----------------------------------------------------------------------------
(* Properties of the text of nagios_result, checked under Spec *)

Text == Unwrap(ret).text

\* index of the first occurrence of ch in s, Len(s) + 1 when there is none
FirstIndex(s, ch) ==
    IF \E i \in 1..Len(s) : s[i] = ch
    THEN CHOOSE k \in 1..Len(s) : s[k] = ch /\ \A j \in 1..(k - 1) : s[j] # ch
    ELSE Len(s) + 1

\* the text in front of the first '|' and the text behind it
BeforeBar(t) == SubSeq(t, 1, FirstIndex(t, "|") - 1)
AfterBar(t) == SubSeq(t, FirstIndex(t, "|") + 1, Len(t))

\* "<name> is <STATUS>" with ": <description>" when a description is set
StatusLine ==
    name \o <<" ", "i", "s", " ">> \o Display(Unwrap(ret).state)
        \o (IF description = None THEN << >> ELSE <<":", " ">> \o Trim(description[1]))

RECURSIVE MessagesOf(_)
MessagesOf(rs) ==
    IF rs = << >> THEN << >>
    ELSE (IF Head(rs).message = None THEN << >> ELSE <<Trim(Head(rs).message[1])>>)
             \o MessagesOf(Tail(rs))

RECURSIVE FragmentsOf(_)
FragmentsOf(rs) ==
    IF rs = << >> THEN << >>
    ELSE (IF Head(rs).perf_string = None THEN << >> ELSE <<Trim(Head(rs).perf_string[1])>>)
             \o FragmentsOf(Tail(rs))

IsNonEmpty(x) == x # << >>
NonEmptyOnly(seq) == SelectSeq(seq, IsNonEmpty)

HasMessage == MessagesOf(results) # << >>
HasMessageText == NonEmptyOnly(MessagesOf(results)) # << >>

\* C13 as stated: the status line is followed by a blank line only if some
\* message has text and otherwise directly by '|', which is always emitted.
C13_BlankLineOnlyWithText ==
    Finalized =>
        /\ Contains(Text, "|")
        /\ IsPrefix(StatusLine, Text)
        /\ HasMessageText => IsPrefix(StatusLine \o <<"\n", "\n">>, Text)
        /\ ~HasMessageText => IsPrefix(StatusLine \o <<"|">>, Text)

\* C13 amended: the status line is followed by a blank line exactly when some
\* result carries a message, also an empty or whitespace-only one (the blank
\* line is then followed directly by '|'), and otherwise directly by '|';
\* '|' is always emitted, also with an empty performance segment.
C13_BlankLineIffMessage ==
    Finalized =>
        /\ Contains(Text, "|")
        /\ IsPrefix(StatusLine, Text)
        /\ HasMessage => IsPrefix(StatusLine \o <<"\n", "\n">>, Text)
        /\ (HasMessage /\ ~HasMessageText) => IsPrefix(StatusLine \o <<"\n", "\n", "|">>, Text)
        /\ ~HasMessage => IsPrefix(StatusLine \o <<"|">>, Text)
        /\ FragmentsOf(results) = << >> => Text[Len(Text)] = "|"

C13_Witness ==
    /\ pc = "finalized"
    /\ HasMessage
    /\ ~HasMessageText
    /\ FragmentsOf(results) = << >>
    /\ Text = StatusLine \o <<"\n", "\n", "|">>

RECURSIVE JoinWith(_, _)
JoinWith(seq, sep) ==
    IF seq = << >> THEN << >>
    ELSE IF Len(seq) = 1 THEN seq[1]
    ELSE seq[1] \o sep \o JoinWith(Tail(seq), sep)

CountOf(s, ch) == Cardinality({i \in 1..Len(s) : s[i] = ch})

\* C14 as stated: the segment behind '|' is the trimmed fragments joined by
\* single spaces, n - 1 spaces for n fragments.
C14_SpaceSeparated ==
    Finalized =>
        LET fs == FragmentsOf(results)
        IN  /\ AfterBar(Text) = JoinWith(fs, <<" ">>)
            /\ fs # << >> => CountOf(AfterBar(Text), " ") = Len(fs) - 1

\* C14 amended: the segment behind '|' is the trimmed fragments in list
\* order, each preceded by a single space: n spaces for n fragments (one
\* leading, n - 1 separating); a result without a fragment contributes
\* neither a fragment nor a space.
C14_SpacePrefixed ==
    Finalized =>
        LET fs == FragmentsOf(results)
            seg == AfterBar(Text)
        IN  /\ fs = << >> => seg = << >>
            /\ fs # << >> => SplitOn(seg, " ") = << << >> >> \o fs
            /\ CountOf(seg, " ") = Len(fs)

C14_Witness ==
    /\ pc = "finalized"
    /\ Len(results) = 2
    /\ results[1].perf_string = None
    /\ results[2].perf_string = Some(<<"'", "x", "'", "=", "1", ";", ";", ";", ";">>)
    /\ AfterBar(Text) = <<" ", "'", "x", "'", "=", "1", ";", ";", ";", ";">>

\* C17: the lines of the message block are the trimmed messages of the
\* results in insertion order, and the fragments of the performance segment
\* are the fragments of the results in insertion order (empty messages leave
\* no text).
C17_InsertionOrder ==
    Finalized =>
        LET lines == SplitOn(BeforeBar(Text), "\n")
        IN  /\ Head(lines) = StatusLine
            /\ NonEmptyOnly(Tail(lines)) = NonEmptyOnly(MessagesOf(results))
            /\ NonEmptyOnly(SplitOn(AfterBar(Text), " ")) = FragmentsOf(results)

C17_Witness ==
    /\ pc = "finalized"
    /\ Len(results) = 2
    /\ results[1].state = Some("Warning")
    /\ IsSome(results[1].message)
    /\ results[1].perf_string = Some(<<"'", "t", "'", "=", "1", ";", "1", ";", "2", ";", ";">>)
    /\ results[2].message = Some(<<"a">>)
    /\ results[2].perf_string = Some(<<"'", "x", "'", "=", "1", ";", ";", ";", ";">>)
    /\ SplitOn(BeforeBar(Text), "\n") = <<StatusLine, << >>, results[1].message[1], <<"a">> >>

\* the other of absent and Ok
FlipAbsentOk(st) == IF st = None THEN Some("Ok") ELSE None

\* C18: replacing the absent status of any result by Ok, or an Ok status by
\* an absent one, changes neither the overall status nor the text that
\* nagios_result returns.
C18_AbsentEqualsOk ==
    Finalized =>
        \A i \in 1..Len(results) :
            results[i].state \in {None, Some("Ok")} =>
                NagiosResult(name,
                             [results EXCEPT ![i].state = FlipAbsentOk(results[i].state)],
                             fixed_state, description) = Unwrap(ret)

C18_Witness ==
    /\ pc = "finalized"
    /\ fixed_state = None
    /\ Len(results) = 2
    /\ results[1].state = None
    /\ results[2].state = Some("Ok")
    /\ IsSome(results[1].message)
    /\ Unwrap(ret).state = "Ok"

----------------------------------------------------------------------------
(* The run wrappers: Runner (runner.rs), safe_run (lib.rs) and             *)
(* safe_run_with_state_sync (helper.rs)                                    *)

\* an error value with its Display and its Debug rendering:
\* #[derive(Debug, thiserror::Error)] #[error("woops")] struct EmptyError
EmptyError ==
    [display |-> <<"w", "o", "o", "p", "s">>,
     debug |-> <<"E", "m", "p", "t", "y", "E", "r", "r", "o", "r">>]

\* an anyhow!(..) error without a cause: Debug prints the message, as Display does
AnyhowError == [display |-> <<"b", "a", "d">>, debug |-> <<"b", "a", "d">>]

Errors == {EmptyError, AnyhowError}

NoError == [display |-> << >>, debug |-> << >>]
NoResource == [name |-> << >>, results |-> << >>, fixed_state |-> None, description |-> None]

\* the Resources a check function returns
CheckedResults ==
    {<< >>,
     <<[state |-> Some("Warning"), message |-> Some(<<"a">>),
        perf_string |-> Some(PerfStringNew(<<"x">>, 1, UnitOf("None"), None, None, None, None))]>>}

SampleResources ==
    [name : {<<"t", "e", "s", "t">>}, results : CheckedResults,
     fixed_state : {None, Some("Unknown")}, description : {None} \cup {Some(d) : d \in Descriptions}]

\* what f() returns: Ok(resource) or Err(err)
CheckFns ==
    {[ok |-> TRUE, resource |-> r, err |-> NoError] : r \in SampleResources}
        \cup {[ok |-> FALSE, resource |-> NoResource, err |-> e] : e \in Errors}

\* an on_error closure: it returns its state with the error it was given or
\* with an error of its own
Handlers == [state : ServiceState, replace : {None} \cup {Some(e) : e \in Errors}]

CallHandler(h, err) == <<h.state, IF IsSome(h.replace) THEN Unwrap(h.replace) ELSE err>>

RunOk(api, resource) ==
    [api |-> api, ok |-> TRUE, resource |-> resource, state |-> None, err |-> NoError]
RunErr(api, state, err) ==
    [api |-> api, ok |-> FALSE, resource |-> NoResource, state |-> Some(state), err |-> err]

RunnerSafeRunDefaultState(handler, f) ==
    IF f.ok
    THEN [result |-> RunOk("Runner", f.resource), calls |-> 0]
    ELSE IF handler = None
         THEN [result |-> RunErr("Runner", "Unknown", f.err), calls |-> 0]
         ELSE LET pair == CallHandler(Unwrap(handler), f.err)
              IN  [result |-> RunErr("Runner", pair[1], pair[2]), calls |-> 1]

RunnerSafeRunHandlerAlways(handler, f) ==
    IF f.ok
    THEN [result |-> RunOk("Runner", f.resource), calls |-> IF handler = None THEN 0 ELSE 1]
    ELSE IF handler = None
         THEN [result |-> RunErr("Runner", "Critical", f.err), calls |-> 0]
         ELSE LET pair == CallHandler(Unwrap(handler), f.err)
              IN  [result |-> RunErr("Runner", pair[1], pair[2]), calls |-> 1]

\* Runner::safe_run: the RunnerResult and the number of handler calls
RunnerSafeRunOp(handler, f) ==
    IF f.ok
    THEN [result |-> RunOk("Runner", f.resource), calls |-> 0]
    ELSE IF handler = None
         THEN [result |-> RunErr("Runner", "Critical", f.err), calls |-> 0]
         ELSE LET pair == CallHandler(Unwrap(handler), f.err)
              IN  [result |-> RunErr("Runner", pair[1], pair[2]), calls |-> 1]

\* safe_run of lib.rs
SafeRunOp(f, state) ==
    IF f.ok THEN RunOk("safe_run", f.resource) ELSE RunErr("safe_run", state, f.err)

ErrorLineNoState(state, rendering) == rendering \o <<"\n">>

\* println!("{}: {}", state, <the error rendered>)
ErrorLine(state, rendering) == Display(state) \o <<":", " ">> \o rendering \o <<"\n">>

\* Runner::new
RunnerNew ==
    /\ run_pc = "start"
    /\ run_pc' = "runner"
    /\ on_error' = None
    /\ UNCHANGED <<check_fn, run_result, handler_calls, error_state,
                   resourceVars, metricVars, perfVars, ordVars, unitVars>>

\* Runner::on_error
RunnerOnError(h) ==
    /\ run_pc = "runner"
    /\ on_error' = Some(h)
    /\ UNCHANGED <<run_pc, check_fn, run_result, handler_calls, error_state,
                   resourceVars, metricVars, perfVars, ordVars, unitVars>>

\* Runner::safe_run
RunnerSafeRun ==
    /\ run_pc = "runner"
    /\ LET r == RunnerSafeRunOp(on_error, check_fn)
       IN  /\ run_result' = Some(r.result)
           /\ handler_calls' = handler_calls + r.calls
    /\ run_pc' = "ran"
    /\ UNCHANGED <<check_fn, on_error, error_state,
                   resourceVars, metricVars, perfVars, ordVars, unitVars>>

\* safe_run(f, error_state) of lib.rs
SafeRun(state) ==
    /\ run_pc = "start"
    /\ error_state' = Some(state)
    /\ run_result' = Some(SafeRunOp(check_fn, state))
    /\ run_pc' = "ran"
    /\ UNCHANGED <<check_fn, on_error, handler_calls,
                   resourceVars, metricVars, perfVars, ordVars, unitVars>>

\* Ok(resource) => resource.print_and_exit()
PrintResourceAndExit(r) ==
    LET nr == NagiosResult(r.name, r.results, r.fixed_state, r.description)
    IN  /\ ret' = Some(nr)
        /\ stdout' = nr.text \o <<"\n">>
        /\ exit_code' = Some(exit_code_of(nr.state))

\* RunnerResult::print_and_exit: the error is printed with {:?}
RunnerResultPrintAndExit ==
    /\ run_pc = "ran"
    /\ Unwrap(run_result).api = "Runner"
    /\ LET r == Unwrap(run_result)
       IN  IF r.ok
           THEN PrintResourceAndExit(r.resource)
           ELSE /\ stdout' = ErrorLine(Unwrap(r.state), r.err.debug)
                /\ exit_code' = Some(exit_code_of(Unwrap(r.state)))
                /\ ret' = ret
    /\ run_pc' = "exited"
    /\ UNCHANGED <<pc, name, results, fixed_state, description,
                   check_fn, on_error, run_result, handler_calls, error_state,
                   metricVars, perfVars, ordVars, unitVars>>

\* RunResult::print_and_exit: the error is printed with {}
RunResultPrintAndExit ==
    /\ run_pc = "ran"
    /\ Unwrap(run_result).api = "safe_run"
    /\ LET r == Unwrap(run_result)
       IN  IF r.ok
           THEN PrintResourceAndExit(r.resource)
           ELSE /\ stdout' = ErrorLine(Unwrap(r.state), r.err.display)
                /\ exit_code' = Some(exit_code_of(Unwrap(r.state)))
                /\ ret' = ret
    /\ run_pc' = "exited"
    /\ UNCHANGED <<pc, name, results, fixed_state, description,
                   check_fn, on_error, run_result, handler_calls, error_state,
                   metricVars, perfVars, ordVars, unitVars>>

\* safe_run_with_state_sync(f, error_state): prints and exits on Err, returns on Ok
SafeRunWithStateSync(state) ==
    /\ run_pc = "start"
    /\ error_state' = Some(state)
    /\ IF check_fn.ok
       THEN /\ run_pc' = "returned"
            /\ UNCHANGED <<stdout, exit_code>>
       ELSE /\ stdout' = ErrorLine(state, check_fn.err.display)
            /\ exit_code' = Some(exit_code_of(state))
            /\ run_pc' = "exited"
    /\ UNCHANGED <<pc, name, results, fixed_state, description, ret,
                   check_fn, on_error, run_result, handler_calls,
                   metricVars, perfVars, ordVars, unitVars>>

InitRun ==
    /\ IdleResource
    /\ IdleMetric
    /\ IdlePerf
    /\ IdleOrd
    /\ IdleUnit
    /\ run_pc = "start"
    /\ check_fn \in CheckFns
    /\ on_error = None
    /\ run_result = None
    /\ handler_calls = 0
    /\ error_state = None

NextRun ==
    \/ RunnerNew
    \/ \E h \in Handlers : RunnerOnError(h)
    \/ RunnerSafeRun
    \/ \E s \in ServiceState : SafeRun(s)
    \/ RunnerResultPrintAndExit
    \/ RunResultPrintAndExit
    \/ \E s \in ServiceState : SafeRunWithStateSync(s)

SpecRun == InitRun /\ [][NextRun]_vars

----------------------------------------------------------------------------
(* Properties of the run wrappers, checked under SpecRun *)

Failed == ~check_fn.ok
Wrapped == IsSome(run_result)
Result == Unwrap(run_result)
ViaRunner == Wrapped /\ Result.api = "Runner"
Exited == run_pc = "exited"

\* C15: when the check function fails, the Runner without a custom handler
\* yields Critical (exit code 2) with the original error; with a custom handler
\* it yields exactly the (severity, error) pair the handler returns, so a
\* handler returning Unknown makes the run exit with code 3.
C15_ErrorSeverity ==
    (ViaRunner /\ Failed) =>
        /\ ~Result.ok
        /\ on_error = None =>
              /\ Result.state = Some("Critical")
              /\ Result.err = check_fn.err
              /\ Exited => exit_code = Some(2)
        /\ IsSome(on_error) =>
              LET h == Unwrap(on_error)
              IN  /\ Result.state = Some(h.state)
                  /\ Result.err = (IF h.replace = None THEN check_fn.err ELSE Unwrap(h.replace))
                  /\ Exited => exit_code = Some(ExitCodeTable(h.state))
                  /\ (Exited /\ h.state = "Unknown") => exit_code = Some(3)

C15_Witness ==
    /\ ViaRunner
    /\ Failed
    /\ Exited
    /\ IsSome(on_error)
    /\ Unwrap(on_error).state = "Unknown"
    /\ Unwrap(on_error).replace = None
    /\ exit_code = Some(3)

\* the severity the error path chose, and the error it carries
ChosenState == IF Wrapped THEN Unwrap(Result.state) ELSE Unwrap(error_state)
ChosenError == IF Wrapped THEN Result.err ELSE check_fn.err

\* C16 as stated: on the error path the run prints "<STATUS>: " followed by
\* the Display rendering of the error, exits with the exit code of the chosen
\* severity, runs no aggregation and emits no performance segment.
C16_PrintsDisplay ==
    (Exited /\ Failed) =>
        /\ stdout = Display(ChosenState) \o <<":", " ">> \o ChosenError.display \o <<"\n">>
        /\ exit_code = Some(ExitCodeTable(ChosenState))
        /\ ret = None
        /\ ~Contains(stdout, "|")

\* C16: on the error path RunResult::print_and_exit and
\* safe_run_with_state_sync print "<STATUS>: " followed by the Display
\* rendering of the error, RunnerResult::print_and_exit prints "<STATUS>: "
\* followed by the Debug rendering; each exits with the exit code of the chosen
\* severity, runs no aggregation and emits no performance segment.
C16_PrintsErrorLine ==
    (Exited /\ Failed) =>
        LET rendering == IF ViaRunner THEN ChosenError.debug ELSE ChosenError.display
        IN  /\ stdout = Display(ChosenState) \o <<":", " ">> \o rendering \o <<"\n">>
            /\ exit_code = Some(ExitCodeTable(ChosenState))
            /\ ret = None
            /\ ~Contains(stdout, "|")

C16_Witness ==
    /\ Exited
    /\ Failed
    /\ ViaRunner
    /\ ChosenError = EmptyError
    /\ ChosenState = "Critical"
    /\ stdout = <<"C", "R", "I", "T", "I", "C", "A", "L", ":", " ",
                  "E", "m", "p", "t", "y", "E", "r", "r", "o", "r", "\n">>
    /\ exit_code = Some(2)

\* C19: when the check function succeeds the wrapper returns the Ok variant
\* holding the Resource the function produced, unchanged; no handler is called
\* and the configured error severity has no effect on the result, the output or
\* the exit code. The handler is called at most once, and only after a failure.
C19_SuccessUntouched ==
    /\ handler_calls <= 1
    /\ handler_calls = 1 => (Failed /\ IsSome(on_error) /\ Wrapped)
    /\ (Wrapped /\ ~Failed) =>
          /\ Result.ok
          /\ Result.resource = check_fn.resource
          /\ Result.state = None
          /\ handler_calls = 0
          /\ Exited =>
                LET r == check_fn.resource
                    nr == NagiosResult(r.name, r.results, r.fixed_state, r.description)
                IN  /\ ret = Some(nr)
                    /\ stdout = nr.text \o <<"\n">>
                    /\ exit_code = Some(ExitCodeTable(nr.state))

C19_Witness ==
    /\ Wrapped
    /\ ~Failed
    /\ Exited
    /\ Result.ok
    /\ Result.api = "Runner"
    /\ IsSome(on_error)
    /\ Unwrap(on_error).state = "Unknown"
    /\ check_fn.resource.results # << >>
    /\ check_fn.resource.fixed_state = None
    /\ exit_code = Some(1)
    /\ handler_calls = 0

----------------------------------------------------------------------------
(* Totality of the Metric conversion, checked under SpecMetric *)

\* C20: converting a Metric into a CheckResult completes and returns a
\* CheckResult for every fixed state, threshold configuration and value: no
\* unwrap of an absent value and no unreachable branch is hit.
C20_Total == conv.outcome # "panicked"

----------------------------------------------------------------------------
(* Monotonicity of the Metric conversion, checked under SpecMetric *)

\* the rank of a decided status: absent below Warning, Warning below Critical
StatusRank(state) ==
    CASE state = Some("Critical") -> 2
      [] state = Some("Warning") -> 1
      [] OTHER -> 0

\* v2 lies at or beyond v1 in the trigger direction
Along(trigger, v1, v2) ==
    \/ trigger = "Greater" /\ v2 >= v1
    \/ trigger = "Less" /\ v2 <= v1

\* the status of the same Metric with another value
StateAt(m, v) == MetricState([m EXCEPT !.value = v])

\* C21: for a Metric without a fixed state and with thresholds, the severity
\* is monotone in the value along the trigger direction: when value v yields
\* status s, every value at or beyond v in the trigger direction yields a
\* status of rank at least that of s, whatever the relative order of the
\* warning and critical bounds.
C21_MonotoneInValue ==
    (Converted /\ Input.fixed_state = None /\ IsSome(Input.thresholds)) =>
        /\ Returned
        /\ \A v2 \in Values :
              Along(Unwrap(Input.thresholds).trigger, Input.value, v2) =>
                  StatusRank(StateAt(Input, v2)) >= StatusRank(Output.state)

C21_Witness ==
    /\ Converted
    /\ Returned
    /\ Input.fixed_state = None
    /\ IsSome(Input.thresholds)
    /\ LET t == Unwrap(Input.thresholds)
       IN  /\ t.trigger = "Greater"
           /\ IsSome(t.warning)
           /\ IsSome(t.critical)
           /\ Unwrap(t.warning) > Unwrap(t.critical)
           /\ Input.value >= Unwrap(t.critical)
           /\ Input.value < Unwrap(t.warning)
           /\ Output.state = Some("Critical")
           /\ \E v2 \in Values : v2 >= Unwrap(t.warning)

====
